---------------------------- MODULE Spec2Model ----------------------------
(***************************************************************************)
(* RealtimeService (src/unnamed/part_004): the realtime synchronization    *)
(* engine of the collaborative editor.  One instance of the class is       *)
(* modelled together with its environment: the transport (channels and     *)
(* the events their handlers receive), the timers of the event loop, the   *)
(* clock read by Date.now(), and the document store read by polling.       *)
(*                                                                         *)
(* Time is kept as the program can observe it: the clock is read only by   *)
(* handleDisconnection, which compares Date.now() - _lastReconnectTime      *)
(* with 30000, so the model keeps that difference (saturating at 30000)    *)
(* instead of the two absolute values.  The clock advances in steps of     *)
(* ClockStep, which is no shorter than the longest delay the program ever  *)
(* asks for (16000 ms), so a timer is due once a step has passed since it  *)
(* was set.                                                                *)
(*                                                                         *)
(* JavaScript runs one handler at a time, so every action is the           *)
(* synchronous run of one handler up to its next real await (a network     *)
(* round trip); the continuation after the await is an action of its own.  *)
(* `await this.channel.subscribe(cb)` awaits the channel object itself     *)
(* (subscribe returns the channel, not a promise), so its continuation     *)
(* (isConnecting = false) runs before any timer or network event and is    *)
(* part of the connectToChannel step.                                       *)
(***************************************************************************)
EXTENDS Integers, Sequences, FiniteSets

VARIABLES
    channel,             \* this.channel: 0 is null, otherwise a channel handle
    documentId,          \* this.documentId: NoDoc is null
    retryCount,          \* this.retryCount
    retryTimeout,        \* this.retryTimeout: 0 null, Stale a handle of a timer that is gone
    isConnecting,        \* this.isConnecting
    pollInterval,        \* this.pollInterval: 0 is null, otherwise an interval handle
    lastFetchedContent,  \* this.lastFetchedContent: Null or <<content>>
    usePolling,          \* this.usePolling
    sinceReconnect,      \* Date.now() - this._lastReconnectTime, up to StormWindow
    timers,              \* pending setTimeout timers: records [id, due]
    intervals,           \* active setInterval intervals: records [id, due]
    subscribed,          \* channels subscribed and not unsubscribed: their handlers are live
    pending,             \* facade call suspended at `await this.channel.unsubscribe()`
    initReads,           \* startPolling calls suspended at their initial getDocument
    tickReads,           \* poll ticks suspended at getDocument
    collabReads,         \* poll ticks suspended at getCollaborators
    noticeReads,         \* postgres_changes handlers suspended at getCollaborators
    joins,               \* history: the joinDocument calls made so far
    failures,            \* history: handleDisconnection runs of the session since its
                         \*   join or last SUBSCRIBED, up to the switch to polling
    connState,           \* history: the ConnectionState of the specification's table
    op,                  \* history: the last step [name, arg, from]: the handler that
                         \*   ran, its input, and the connState it ran in
    out,                 \* history: callbacks, transport calls and throws of the last step
    overlap,             \* a joinDocument called while another one is suspended, itself
                         \*   suspended at `await this.channel.unsubscribe()`
    store,               \* environment: the content of the document in the documents table
    inbox,               \* environment: channels that have yet to deliver the frame of
                         \*   the other participant's change
    delivered,           \* history: onUpdate calls made since that change, up to MaxDelivered
    observed             \* history: the set last handed to onCollaboratorUpdate since
                         \*   the last leaveDocument, Null when there is none

vars == <<channel, documentId, retryCount, retryTimeout, isConnecting, pollInterval,
          lastFetchedContent, usePolling, sinceReconnect, timers, intervals,
          subscribed, pending, initReads, tickReads, collabReads, noticeReads, joins,
          failures, connState, op, out, overlap, store, inbox, delivered, observed>>

-----------------------------------------------------------------------------
(* Bounds of the model *)

MaxChannels == 2
MaxTimers == 2
MaxIntervals == 2
MaxInitReads == 2
MaxTickReads == 1
MaxContentLen == 1
ClockStep == 16000
NumDocs == 1
MaxJoins == 2
MaxDelivered == 2
MaxNoticeReads == 2

(* Program constants *)

maxRetries == 5
BaseDelay == 1000
CapDelay == 30000
StormWindow == 30000


NoDoc == "null"
NoArg == "none"
DocName(i) == IF i = 1 THEN "doc-1" ELSE IF i = 2 THEN "doc-2" ELSE "doc-3"
Docs == {DocName(i) : i \in 1..NumDocs}
Null == <<>>
Some(x) == <<x>>
Stale == -1
NoPending == [kind |-> "none", doc |-> NoDoc, ch |-> 0]

Chars == {"a"}
RECURSIVE SeqsUpTo(_)
SeqsUpTo(n) ==
    IF n = 0 THEN {<<>>}
    ELSE LET shorter == SeqsUpTo(n - 1)
         IN shorter \cup {Append(s, c) : s \in {x \in shorter : Len(x) = n - 1}, c \in Chars}
Contents == SeqsUpTo(MaxContentLen)
InitialContent == <<>>

Updates == {[type |-> "insert", from |-> 5, to |-> 5, text |-> <<"h", "i">>],
            [type |-> "delete", from |-> 0, to |-> 1, text |-> <<>>]}

\* Payloads of inbound broadcast frames: what another client sent, whole or not.
Frames == Updates \cup {[type |-> "insert", from |-> 5, text |-> <<"h", "i">>],
                        [type |-> "insert", to |-> 5, text |-> <<"h", "i">>],
                        [type |-> "delete", from |-> 3, to |-> 1, text |-> <<>>]}

ConnectOutcomes == {"ok", "openFails", "subscribeFails"}
\* TIMED_OUT takes the branch of CHANNEL_ERROR and is left to it.
Statuses == {"SUBSCRIBED", "CHANNEL_ERROR", "CLOSED"}
Fault == [message |-> "connection lost", status |-> "ok"]
Confirmation == [message |-> "Subscribed to PostgreSQL", status |-> "ok"]
Notices == {[event |-> "disconnect", payload |-> Confirmation],
            [event |-> "disconnect", payload |-> [Confirmation EXCEPT !.status = "error"]],
            [event |-> "error", payload |-> Fault]}

Min(a, b) == IF a <= b THEN a ELSE b

RECURSIVE Pow2(_)
Pow2(n) == IF n = 0 THEN 1 ELSE 2 * Pow2(n - 1)

-----------------------------------------------------------------------------
(* The state as one record, so that a handler that calls another composes. *)

State ==
    [channel |-> channel, documentId |-> documentId, retryCount |-> retryCount,
     retryTimeout |-> retryTimeout, isConnecting |-> isConnecting,
     pollInterval |-> pollInterval, lastFetchedContent |-> lastFetchedContent,
     usePolling |-> usePolling, sinceReconnect |-> sinceReconnect,
     timers |-> timers, intervals |-> intervals, subscribed |-> subscribed,
     pending |-> pending, initReads |-> initReads, tickReads |-> tickReads,
     collabReads |-> collabReads, noticeReads |-> noticeReads, joins |-> joins, failures |-> failures,
     connState |-> connState, out |-> <<>>, overlap |-> overlap, store |-> store,
     inbox |-> inbox, delivered |-> delivered, observed |-> observed]

Bounded(s) ==
    /\ Cardinality(s.timers) <= MaxTimers
    /\ Cardinality(s.intervals) <= MaxIntervals
    /\ s.channel <= MaxChannels
    /\ s.initReads <= MaxInitReads
    /\ s.tickReads <= MaxTickReads
    /\ s.collabReads <= MaxTickReads
    /\ s.noticeReads <= MaxNoticeReads

Commit(s, name, arg) ==
    /\ Bounded(s)
    /\ channel' = s.channel
    /\ documentId' = s.documentId
    /\ retryCount' = s.retryCount
    /\ retryTimeout' = s.retryTimeout
    /\ isConnecting' = s.isConnecting
    /\ pollInterval' = s.pollInterval
    /\ lastFetchedContent' = s.lastFetchedContent
    /\ usePolling' = s.usePolling
    /\ sinceReconnect' = s.sinceReconnect
    /\ timers' = s.timers
    /\ intervals' = s.intervals
    /\ subscribed' = s.subscribed
    /\ pending' = s.pending
    /\ initReads' = s.initReads
    /\ tickReads' = s.tickReads
    /\ collabReads' = s.collabReads
    /\ noticeReads' = s.noticeReads
    /\ joins' = s.joins
    /\ failures' = s.failures
    /\ connState' = s.connState
    /\ op' = [name |-> name, arg |-> arg, from |-> connState]
    /\ out' = s.out
    /\ overlap' = s.overlap
    /\ store' = s.store
    /\ inbox' = s.inbox
    /\ delivered' = IF s.store = InitialContent THEN 0
                    ELSE Min(delivered + Len(SelectSeq(s.out, LAMBDA u : u.type = "onUpdate")),
                             MaxDelivered)
    /\ observed' = LET calls == SelectSeq(s.out, LAMBDA u : u.type = "onCollaboratorUpdate")
                   IN IF calls = <<>> THEN s.observed ELSE Some(calls[Len(calls)].arg)

Emit(s, type, arg) == [s EXCEPT !.out = Append(@, [type |-> type, arg |-> arg])]

(* The history variable follows the table of the specification; nothing    *)
(* leaves Idle or Closed but joinDocument.                                  *)
Enter(s, st) ==
    IF s.connState \in {"Idle", "Closed", "Polling"} THEN s
    ELSE [s EXCEPT !.connState = st]

-----------------------------------------------------------------------------
(* Handles of the event loop and the transport *)

FreshId(used, max) ==
    CHOOSE i \in 1..(max + 1) : i \notin used /\ \A j \in 1..(i - 1) : j \in used

FreshTimer(s) == FreshId({t.id : t \in s.timers}, MaxTimers)
FreshInterval(s) == FreshId({i.id : i \in s.intervals}, MaxIntervals)
FreshChannel(s) ==
    FreshId(s.subscribed \cup {s.channel, s.pending.ch, s.overlap.ch}, MaxChannels)

\* clearTimeout(this.retryTimeout); this.retryTimeout = null
ClearRetryTimeout(s) ==
    IF s.retryTimeout # 0
    THEN [s EXCEPT !.timers = {t \in @ : t.id # s.retryTimeout}, !.retryTimeout = 0]
    ELSE s

\* clearInterval(this.pollInterval); this.pollInterval = null
ClearPollInterval(s) ==
    IF s.pollInterval # 0
    THEN [s EXCEPT !.intervals = {i \in @ : i.id # s.pollInterval}, !.pollInterval = 0]
    ELSE s

-----------------------------------------------------------------------------
(* The handlers of RealtimeService, as functions of the state *)

\* Math.min(1000 * Math.pow(2, this.retryCount), 30000)
\* A backoff that grows by BaseDelay per attempt instead of doubling.
LinearDelay(n) == Min(BaseDelay * (n + 1), CapDelay)

BackoffDelay(n) == Min(BaseDelay * Pow2(n), CapDelay)

\* this._lastReconnectTime && now - this._lastReconnectTime < 30000
TooFrequent(s) == s.sinceReconnect < StormWindow

\* A skip ahead limited by maxRetries instead of maxRetries - 1.
SkipToMax(n) == Min(n + 2, maxRetries)

\* A skip ahead without the upper limit.
SkipUncapped(n) == n + 2

\* Math.min(this.retryCount + 2, this.maxRetries - 1)
SkipAhead(n) == Min(n + 2, maxRetries - 1)

\* startPolling up to `await RealtimeService.getDocument(this.documentId)`
startPolling(s) ==
    IF s.documentId = NoDoc \/ s.pollInterval # 0 THEN s
    ELSE [s EXCEPT !.initReads = @ + 1]

\* The retry branch of handleDisconnection: throttle, back off, set the timer.
ScheduleRetry(s) ==
    LET n == IF TooFrequent(s) THEN SkipAhead(s.retryCount) ELSE s.retryCount
        delay == BackoffDelay(n)
        id == FreshTimer(s)
        s1 == [s EXCEPT !.retryCount = n + 1,
                        !.sinceReconnect = 0,
                        !.timers = @ \cup {[id |-> id, due |-> FALSE]},
                        !.retryTimeout = id]
    IN Enter(Emit(s1, "setTimeout", delay), "Reconnecting")

\* The exhausted branch of handleDisconnection: report, switch to polling.
SwitchToPolling(s) ==
    LET s1 == Emit(s, "onError", "DegradedMode")
        s2 == [s1 EXCEPT !.usePolling = TRUE]
    IN Enter(startPolling(s2), "Polling")

\* A handleDisconnection without the exhausted branch: it retries for ever.
RetryForever(s) ==
    LET s1 == IF s.connState \in {"Idle", "Closed", "Polling"} THEN s
              ELSE [s EXCEPT !.failures = Min(@ + 1, maxRetries + 1)]
    IN ScheduleRetry([s1 EXCEPT !.retryCount = Min(@, maxRetries - 1)])

handleDisconnection(s) ==
    LET s1 == IF s.connState \in {"Idle", "Closed", "Polling"} THEN s
              ELSE [s EXCEPT !.failures = Min(@ + 1, maxRetries + 1)]
    IN IF s.retryCount >= maxRetries THEN SwitchToPolling(s1) ELSE ScheduleRetry(s1)

\* connectToChannel; outcome says whether supabase.channel or subscribe throws.
connectToChannel(s, outcome) ==
    IF s.documentId = NoDoc \/ s.isConnecting THEN s
    ELSE LET s1 == ClearRetryTimeout([s EXCEPT !.isConnecting = TRUE])
             c == FreshChannel(s)
             opened == Emit([s1 EXCEPT !.channel = c], "channel",
                            [ch |-> c, doc |-> s.documentId])
         IN CASE outcome = "openFails" ->
                    handleDisconnection([s1 EXCEPT !.isConnecting = FALSE])
              [] outcome = "subscribeFails" ->
                    handleDisconnection([opened EXCEPT !.isConnecting = FALSE])
              [] OTHER ->
                    Enter([Emit(opened, "subscribe", c) EXCEPT
                               !.subscribed = @ \cup {c}, !.isConnecting = FALSE],
                          "Connecting")

\* The end of leaveDocument, after the channel block.
ResetState(s) ==
    [s EXCEPT !.retryCount = 0, !.isConnecting = FALSE, !.usePolling = FALSE,
              !.lastFetchedContent = Null, !.failures = 0, !.observed = Null]

\* joinDocument from `this.documentId = documentId` on.
joinAfterLeave(s, d, outcome) ==
    LET s1 == [s EXCEPT !.documentId = d, !.retryCount = 0, !.failures = 0,
                        !.connState = "Connecting"]
    IN connectToChannel(s1, outcome)

\* leaveDocument up to `await this.channel.unsubscribe()`, or to its end when
\* there is no channel; kind and d say who called it (joinDocument(d) or the caller).
leaveBegin(s, kind, d) ==
    LET s1 == ClearPollInterval(ClearRetryTimeout(s))
    IN IF s1.channel # 0
       THEN [Emit(s1, "unsubscribe", s1.channel) EXCEPT
                 !.pending = [kind |-> kind, doc |-> d, ch |-> s1.channel]]
       ELSE ResetState(s1)

\* leaveDocument after the await; unsubscribed is false when unsubscribe threw.
leaveEnd(s, unsubscribed) ==
    LET s1 == [s EXCEPT !.subscribed = IF unsubscribed THEN @ \ {s.pending.ch} ELSE @,
                        !.channel = 0,
                        !.documentId = NoDoc,
                        !.pending = NoPending]
    IN ResetState(s1)

\* joinDocument(d) called while a joinDocument is suspended in leaveDocument:
\* this.channel is still set, so the call enters leaveDocument as well and is
\* suspended at its own `await this.channel.unsubscribe()`.
joinOverlapping(s, d) ==
    LET s1 == ClearPollInterval(ClearRetryTimeout(s))
    IN [Emit(s1, "unsubscribe", s1.channel) EXCEPT
            !.overlap = [kind |-> "join", doc |-> d, ch |-> s1.channel],
            !.joins = @ + 1]

\* leaveDocument of the overlapping call after its await.
overlapEnd(s, unsubscribed) ==
    LET s1 == [s EXCEPT !.subscribed = IF unsubscribed THEN @ \ {s.overlap.ch} ELSE @,
                        !.channel = 0,
                        !.documentId = NoDoc,
                        !.overlap = NoPending]
    IN ResetState(s1)

\* sendUpdate; sent is false when channel.send rejects.
sendUpdate(s, update, sent) ==
    IF s.channel = 0 \/ s.documentId = NoDoc
    THEN Emit(s, "throw", "Not connected to a document")
    ELSE IF s.usePolling THEN s
    ELSE LET s1 == Emit(s, "send", [ch |-> s.channel, event |-> "document_update",
                                    payload |-> update])
         IN IF sent THEN s1 ELSE Emit(s1, "onError", "SendFailed")

\* A broadcast handler that treats a frame as a lost connection.
FrameFault(s, payload, throws) == handleDisconnection(s)

\* The broadcast 'document_update' handler; throws is true when onUpdate throws.
onFrame(s, payload, throws) ==
    LET s1 == Emit(s, "onUpdate", payload)
    IN IF throws THEN Emit(s1, "onError", "CallbackError") ELSE s1

\* A payload test that looks at the message alone.
MessageOnly(payload) == payload.message = "Subscribed to PostgreSQL"

\* A collaborators handler that takes a failed fetch for a lost connection.
NoticeReadFault(s, fetched, throws) ==
    LET s1 == [s EXCEPT !.noticeReads = @ - 1]
    IN IF fetched = Null THEN handleDisconnection(s1)
       ELSE Emit(s1, "onCollaboratorUpdate", fetched[1])

\* The postgres_changes handler up to `await RealtimeService.getCollaborators(...)`
onCollaboratorNotice(s) ==
    IF s.documentId = NoDoc THEN s
    ELSE [Emit(s, "getCollaborators", s.documentId) EXCEPT !.noticeReads = @ + 1]

\* The postgres_changes handler after the await; fetched is Null when
\* getCollaborators threw, throws is true when onCollaboratorUpdate throws.
onCollaboratorNoticeRead(s, fetched, throws) ==
    LET s1 == [s EXCEPT !.noticeReads = @ - 1]
    IN IF fetched = Null THEN Emit(s1, "onError", "CollaboratorFetchFailed")
       ELSE LET s2 == Emit(s1, "onCollaboratorUpdate", fetched[1])
            IN IF throws THEN Emit(s2, "onError", "CallbackError") ELSE s2

\* The payload test of the system 'disconnect' and 'error' handlers.
IsSubscriptionConfirmation(payload) ==
    payload.message = "Subscribed to PostgreSQL" /\ payload.status = "ok"

onSystemEvent(s, payload) ==
    IF IsSubscriptionConfirmation(payload) THEN s ELSE handleDisconnection(s)

\* A SUBSCRIBED branch that forgets to restart the attempt counter.
SubscribedKeepsCount(s) == [s EXCEPT !.isConnecting = FALSE]

\* The SUBSCRIBED branch of the subscribe callback.
Subscribed(s) ==
    [s EXCEPT !.retryCount = 0, !.isConnecting = FALSE]

\* The callback given to channel.subscribe.
\* c is the channel reporting: the session is Live once its current channel
\* is subscribed.
onStatus(s, c, status) ==
    IF status = "SUBSCRIBED"
    THEN IF s.connState = "Polling" THEN Subscribed(s)
         ELSE LET s1 == [Subscribed(s) EXCEPT !.failures = 0]
              IN IF c = s.channel THEN Enter(s1, "Live") ELSE s1
    ELSE IF status \in {"TIMED_OUT", "CHANNEL_ERROR"} THEN handleDisconnection(s)
    ELSE s

\* The callback given to setTimeout by handleDisconnection.
onRetryTimer(s, outcome) ==
    IF s.documentId # NoDoc THEN connectToChannel(s, outcome) ELSE s

\* A replace range that always starts and ends at 0.
EmptyRange(snapshot) == 0

\* this.lastFetchedContent ? this.lastFetchedContent.length : 0
SnapshotLength(snapshot) ==
    IF snapshot = Null \/ snapshot = Some(<<>>) THEN 0 ELSE Len(snapshot[1])

\* startPolling after its initial read; read is Null when getDocument threw.
startPollingEnd(s, read) ==
    LET s1 == IF read # Null THEN [s EXCEPT !.lastFetchedContent = read] ELSE s
        id == FreshInterval(s)
    IN [s1 EXCEPT !.initReads = @ - 1,
                  !.intervals = @ \cup {[id |-> id, due |-> FALSE]},
                  !.pollInterval = id]

\* The setInterval callback up to `await RealtimeService.getDocument(this.documentId)`
onPollTick(s) ==
    IF s.documentId = NoDoc THEN s ELSE [s EXCEPT !.tickReads = @ + 1]

\* The content comparison of a tick and the replace update it synthesizes.
ApplyPolledContent(s, content) ==
    IF Some(content) # s.lastFetchedContent
    THEN LET update == [type |-> "replace", from |-> 0,
                        to |-> SnapshotLength(s.lastFetchedContent), text |-> content]
         IN Emit([s EXCEPT !.lastFetchedContent = Some(content)], "onUpdate", update)
    ELSE s

\* The tick after getDocument, up to `await RealtimeService.getCollaborators(...)`;
\* read is Null when getDocument threw (caught, logged to the console).
onPollRead(s, read) ==
    LET s1 == [s EXCEPT !.tickReads = @ - 1]
    IN IF read = Null THEN s1
       ELSE [ApplyPolledContent(s1, read[1]) EXCEPT !.collabReads = @ + 1]

\* The tick after getCollaborators; fetched is Null when it threw.
onPollCollaborators(s, fetched) ==
    LET s1 == [s EXCEPT !.collabReads = @ - 1]
    IN IF fetched = Null THEN s1 ELSE Emit(s1, "onCollaboratorUpdate", fetched[1])

CollaboratorSets == {{}, {"a@x.org"}}

-----------------------------------------------------------------------------
(* The state after construction *)

Init ==
    /\ channel = 0
    /\ documentId = NoDoc
    /\ retryCount = 0
    /\ retryTimeout = 0
    /\ isConnecting = FALSE
    /\ pollInterval = 0
    /\ lastFetchedContent = Null
    /\ usePolling = FALSE
    /\ sinceReconnect = StormWindow
    /\ timers = {}
    /\ intervals = {}
    /\ subscribed = {}
    /\ pending = NoPending
    /\ initReads = 0
    /\ tickReads = 0
    /\ collabReads = 0
    /\ noticeReads = 0
    /\ joins = 0
    /\ failures = 0
    /\ connState = "Idle"
    /\ op = [name |-> "new", arg |-> NoArg, from |-> "Idle"]
    /\ out = <<>>
    /\ overlap = NoPending
    /\ store = InitialContent
    /\ inbox = {}
    /\ delivered = 0
    /\ observed = Null

-----------------------------------------------------------------------------
(* Facade calls.  The caller serializes joinDocument and leaveDocument per  *)
(* instance: neither is called while one of them is suspended, except by    *)
(* JoinDuringJoin.                                                          *)

JoinDocument(d, outcome) ==
    /\ pending = NoPending
    /\ LET s == [State EXCEPT !.joins = @ + 1]
       IN Commit(IF channel # 0 THEN leaveBegin(s, "join", d)
                 ELSE joinAfterLeave(s, d, outcome),
                 "joinDocument", d)

LeaveDocument ==
    /\ pending = NoPending
    /\ LET s == leaveBegin(State, "leave", NoDoc)
       IN Commit(IF channel # 0 THEN s ELSE [s EXCEPT !.connState = "Closed"],
                 "leaveDocument", NoArg)

\* channel.unsubscribe() settles: leaveDocument resumes, and joinDocument after it.
UnsubscribeSettles(unsubscribed, outcome) ==
    /\ pending # NoPending
    /\ LET s == leaveEnd(State, unsubscribed)
       IN Commit(IF pending.kind = "join" THEN joinAfterLeave(s, pending.doc, outcome)
                 ELSE [s EXCEPT !.connState = "Closed"],
                 IF pending.kind = "join" THEN "joinDocument" ELSE "leaveDocument",
                 pending.doc)

\* A joinDocument made by a caller that did not wait for the previous one.
JoinDuringJoin(d) ==
    /\ pending.kind = "join"
    /\ overlap = NoPending
    /\ channel # 0
    /\ Commit(joinOverlapping(State, d), "joinOverlapping", d)

\* channel.unsubscribe() of the overlapping call settles: its leaveDocument
\* resumes, and its joinDocument after it.
OverlapSettles(unsubscribed, outcome) ==
    /\ overlap # NoPending
    /\ Commit(joinAfterLeave(overlapEnd(State, unsubscribed), overlap.doc, outcome),
              "joinDocument", overlap.doc)

SendUpdate(update, sent) ==
    Commit(sendUpdate(State, update, sent), "sendUpdate", update)

(* Transport events, delivered to the handlers of a subscribed channel *)

ChannelStatus(c, status) ==
    /\ c \in subscribed
    /\ Commit(onStatus(State, c, status), "status", status)

SystemNotice(c, event, payload) ==
    /\ c \in subscribed
    /\ Commit(onSystemEvent(State, payload), "system", payload)

BroadcastFrame(c, payload, throws) ==
    /\ c \in subscribed
    /\ Commit(onFrame(State, payload, throws), "frame", payload)

(* A change of the document_collaborators table reaches a channel *)

CollaboratorNotice(c) ==
    /\ c \in subscribed
    /\ Commit(onCollaboratorNotice(State), "collaboratorNotice", NoArg)

CollaboratorNoticeReadSettles(fetched, throws) ==
    /\ noticeReads > 0
    /\ Commit(onCollaboratorNoticeRead(State, fetched, throws), "collaboratorFetch", fetched)

(* Another participant changes the document: the stored content changes and *)
(* every subscribed channel is to deliver one 'document_update' frame.      *)

EditUpdate(content) == [type |-> "insert", from |-> 0, to |-> 0, text |-> content]

RemoteEdit(content) ==
    /\ store = InitialContent
    /\ content # InitialContent
    /\ Commit([State EXCEPT !.store = content, !.inbox = subscribed], "remoteEdit", content)

EditFrameArrives(c) ==
    /\ c \in inbox \cap subscribed
    /\ Commit(onFrame([State EXCEPT !.inbox = @ \ {c}], EditUpdate(store), FALSE),
              "frame", EditUpdate(store))

(* The event loop: a timer runs once its time has passed *)

RetryTimerFires(t, outcome) ==
    /\ t \in timers
    /\ t.due
    /\ LET s == [State EXCEPT !.timers = @ \ {t},
                              !.retryTimeout = IF @ = t.id THEN Stale ELSE @]
       IN Commit(onRetryTimer(s, outcome), "retryTimer", NoArg)

PollIntervalFires(i) ==
    /\ i \in intervals
    /\ i.due
    /\ LET s == [State EXCEPT !.intervals = (@ \ {i}) \cup {[i EXCEPT !.due = FALSE]}]
       IN Commit(onPollTick(s), "pollTick", NoArg)

(* Store reads settle *)

InitialReadSettles(read) ==
    /\ initReads > 0
    /\ Commit(startPollingEnd(State, read), "startPolling", read)

PollReadSettles(read) ==
    /\ tickReads > 0
    /\ Commit(onPollRead(State, read), "pollRead", read)

CollaboratorsReadSettles(fetched) ==
    /\ collabReads > 0
    /\ Commit(onPollCollaborators(State, fetched), "pollCollaborators", fetched)

\* ClockStep milliseconds pass: every timer set before is now due.
AdvanceClock ==
    Commit([State EXCEPT
                !.sinceReconnect = Min(@ + ClockStep, StormWindow),
                !.timers = {[t EXCEPT !.due = TRUE] : t \in @},
                !.intervals = {[i EXCEPT !.due = TRUE] : i \in @}],
           "clock", NoArg)

Reads == {Null} \cup {Some(c) : c \in Contents}

Fetches == {Null} \cup {Some(x) : x \in CollaboratorSets}
(* The connection lifecycle: every facade call and transport event, on an   *)
(* instance joined up to MaxJoins times.  The document store does not       *)
(* answer here: a startPolling call stays suspended at its initial read.    *)
Next ==
    \/ \E d \in Docs, outcome \in ConnectOutcomes :
           joins < MaxJoins /\ JoinDocument(d, outcome)
    \/ LeaveDocument
    \/ \E unsubscribed \in BOOLEAN, outcome \in ConnectOutcomes :
           UnsubscribeSettles(unsubscribed, outcome)
    \/ \E update \in Updates, sent \in BOOLEAN : SendUpdate(update, sent)
    \/ \E c \in subscribed, status \in Statuses : ChannelStatus(c, status)
    \/ \E c \in subscribed, notice \in Notices :
           SystemNotice(c, notice.event, notice.payload)
    \/ \E t \in timers, outcome \in ConnectOutcomes : RetryTimerFires(t, outcome)
    \/ AdvanceClock

Spec == Init /\ [][Next]_vars

(* The polling fallback: one session on a transport whose channels open,    *)
(* with the store reads of startPolling and of the poll ticks.              *)
PollNext ==
    \/ \E d \in Docs : joins = 0 /\ JoinDocument(d, "ok")
    \/ LeaveDocument
    \/ UnsubscribeSettles(TRUE, "ok")
    \/ \E c \in subscribed : ChannelStatus(c, "CHANNEL_ERROR")
    \/ \E t \in timers : RetryTimerFires(t, "ok")
    \/ \E i \in intervals : PollIntervalFires(i)
    \/ \E read \in Reads : InitialReadSettles(read)
    \/ \E read \in Reads : PollReadSettles(read)
    \/ \E fetched \in Fetches : CollaboratorsReadSettles(fetched)
    \/ AdvanceClock

PollSpec == Init /\ [][PollNext]_vars

(* A joinDocument of a second document on an instance joined to a first one, *)
(* on a transport whose channels open and whose unsubscribe succeeds; the   *)
(* caller awaits each call.                                                 *)
RejoinNext ==
    \/ joins = 0 /\ JoinDocument(DocName(1), "ok")
    \/ joins = 1 /\ connState \notin {"Idle", "Closed"} /\ JoinDocument(DocName(2), "ok")
    \/ UnsubscribeSettles(TRUE, "ok")
    \/ \E c \in subscribed, status \in {"SUBSCRIBED", "CHANNEL_ERROR"} : ChannelStatus(c, status)
    \/ \E t \in timers : RetryTimerFires(t, "ok")
    \/ AdvanceClock

RejoinSpec == Init /\ [][RejoinNext]_vars

(* Two joinDocument calls of one instance in flight at the same time.       *)
OverlapNext ==
    \/ \E d \in Docs : joins < 2 /\ JoinDocument(d, "ok")
    \/ \E d \in Docs : joins = 2 /\ JoinDuringJoin(d)
    \/ UnsubscribeSettles(TRUE, "ok")
    \/ OverlapSettles(TRUE, "ok")
    \/ \E c \in subscribed, status \in {"SUBSCRIBED", "CHANNEL_ERROR"} : ChannelStatus(c, status)
    \/ \E t \in timers : RetryTimerFires(t, "ok")
    \/ AdvanceClock

OverlapSpec == Init /\ [][OverlapNext]_vars

(* One session on a transport that is down: supabase.channel or subscribe   *)
(* throws in every attempt.  leaveDocument is not called, time passes and   *)
(* a timer that is due fires.                                               *)
FailedAttempts == ConnectOutcomes \ {"ok"}

FailNext ==
    \/ \E d \in Docs, outcome \in FailedAttempts : joins = 0 /\ JoinDocument(d, outcome)
    \/ \E update \in Updates, sent \in BOOLEAN : SendUpdate(update, sent)
    \/ \E t \in timers, outcome \in FailedAttempts : RetryTimerFires(t, outcome)
    \/ AdvanceClock

FailSpec ==
    /\ Init /\ [][FailNext]_vars
    /\ WF_vars(AdvanceClock)
    /\ WF_vars(\E t \in timers, outcome \in FailedAttempts : RetryTimerFires(t, outcome))

(* One session whose channels open, with changes of the collaborators       *)
(* table announced on the subscribed channels.                              *)
NoticeNext ==
    \/ \E d \in Docs : joins = 0 /\ JoinDocument(d, "ok")
    \/ LeaveDocument
    \/ UnsubscribeSettles(TRUE, "ok")
    \/ \E c \in subscribed, status \in {"SUBSCRIBED", "CHANNEL_ERROR"} : ChannelStatus(c, status)
    \/ \E c \in subscribed : CollaboratorNotice(c)
    \/ \E fetched \in Fetches, throws \in BOOLEAN : CollaboratorNoticeReadSettles(fetched, throws)
    \/ \E t \in timers : RetryTimerFires(t, "ok")
    \/ AdvanceClock

NoticeSpec == Init /\ [][NoticeNext]_vars

(* One session and one change made by another participant, seen through    *)
(* the channels' frames and through the reads of the document store.        *)
ChangeNext ==
    \/ \E d \in Docs : joins = 0 /\ JoinDocument(d, "ok")
    \/ \E c \in subscribed, status \in {"SUBSCRIBED", "CHANNEL_ERROR"} : ChannelStatus(c, status)
    \/ \E t \in timers : RetryTimerFires(t, "ok")
    \/ \E i \in intervals : PollIntervalFires(i)
    \/ InitialReadSettles(Some(store))
    \/ PollReadSettles(Some(store))
    \/ \E fetched \in Fetches : CollaboratorsReadSettles(fetched)
    \/ \E content \in Contents : documentId # NoDoc /\ RemoteEdit(content)
    \/ \E c \in inbox : EditFrameArrives(c)
    \/ AdvanceClock

ChangeSpec == Init /\ [][ChangeNext]_vars

(* One session whose channels open, with broadcast frames arriving on the   *)
(* subscribed channels.                                                     *)
FrameNext ==
    \/ \E d \in Docs : joins = 0 /\ JoinDocument(d, "ok")
    \/ LeaveDocument
    \/ UnsubscribeSettles(TRUE, "ok")
    \/ \E c \in subscribed, status \in {"SUBSCRIBED", "CHANNEL_ERROR"} : ChannelStatus(c, status)
    \/ \E c \in subscribed, payload \in Frames, throws \in BOOLEAN :
           BroadcastFrame(c, payload, throws)
    \/ \E t \in timers : RetryTimerFires(t, "ok")
    \/ AdvanceClock

FrameSpec == Init /\ [][FrameNext]_vars

-----------------------------------------------------------------------------
(* What a step handed to the outside world. *)

Emitted(o, type) == {o[i].arg : i \in {j \in DOMAIN o : o[j].type = type}}
Delays(o) == Emitted(o, "setTimeout")
Degraded(o) == "DegradedMode" \in Emitted(o, "onError")
Failed(o) == Delays(o) # {} \/ Degraded(o)
Joined == connState \notin {"Idle", "Closed"}

\* C1: in the session opened by the first joinDocument the polling flag is
\* set exactly when five or more failures have been handled since the join
\* or the last SUBSCRIBED: never after fewer, always from the fifth on.
C1_PollingAtFifthFailure ==
    (joins = 1 /\ Joined /\ pending = NoPending)
        => (usePolling <=> failures >= maxRetries)

\* C2: while the session is in polling mode and leaveDocument has not been
\* called, no step delivers the degraded-mode error again.
C2_DegradedOnce ==
    (op.from = "Polling" /\ connState = "Polling" /\ pending = NoPending)
        => ~Degraded(out)

\* C3 as stated: SUBSCRIBED sets retryCount to 0, and a failure handled in
\* the Live state schedules its retry 1000 ms ahead, whenever the previous
\* reconnect was scheduled.
C3_BaseDelayAfterSubscribed ==
    /\ (op.name = "status" /\ op.arg = "SUBSCRIBED") => retryCount = 0
    /\ (op.from = "Live" /\ Failed(out)) => Delays(out) = {1000}

\* C3 amended: SUBSCRIBED sets retryCount to 0, and a failure handled in
\* the Live state schedules its retry 1000 ms ahead unless a reconnect was
\* scheduled less than 30 s before, in which case the retry is 4000 ms ahead.
C3_ResetThenBackoff ==
    [][/\ (op'.name = "status" /\ op'.arg = "SUBSCRIBED") => retryCount' = 0
       /\ (connState = "Live" /\ Failed(out'))
            => Delays(out') = {IF sinceReconnect < 30000 THEN 4000 ELSE 1000}]_vars

C3_Witness ==
    /\ op.from = "Live" /\ op.name = "system" /\ connState = "Reconnecting"
    /\ Delays(out) = {1000} /\ retryCount = 1

\* C4: a retry scheduled from attempt counter n (the counter the delay is
\* computed from, one less than the counter the step leaves) has n in 0..4
\* and is min(1000 * 2^n, 30000) ms ahead.
C4_BackoffDelay ==
    \A delay \in Delays(out) :
        /\ retryCount \in 1..5
        /\ delay = IF 1000 * 2^(retryCount - 1) < 30000
                   THEN 1000 * 2^(retryCount - 1) ELSE 30000

C4_Witness ==
    Delays(out) = {16000} /\ retryCount = 5 /\ connState = "Reconnecting"

\* C5: once leaveDocument has completed, no step opens or subscribes a
\* transport channel until joinDocument is called again.
C5_NoReconnectAfterLeave ==
    (op.from = "Closed" /\ connState = "Closed" /\ pending = NoPending)
        => (Emitted(out, "channel") = {} /\ Emitted(out, "subscribe") = {})

\* C6: once leaveDocument has completed no polling interval is left and no
\* step run from the Closed state invokes the update or the collaborator
\* callback.
C6_NoPollingAfterLeave ==
    (connState = "Closed" /\ pending = NoPending)
        => /\ intervals = {}
           /\ op.from = "Closed"
                => (Emitted(out, "onUpdate") = {}
                    /\ Emitted(out, "onCollaboratorUpdate") = {})

\* C7: sendUpdate in polling mode hands nothing to the outside world: no
\* throw, no error callback, no transport send.
C7_SilentInPolling ==
    (op.name = "sendUpdate" /\ connState = "Polling" /\ usePolling) => out = <<>>

\* C8: sendUpdate before any joinDocument or after leaveDocument throws
\* 'Not connected to a document' and does nothing else.
C8_NotConnected ==
    (op.name = "sendUpdate" /\ connState \in {"Idle", "Closed"} /\ pending = NoPending)
        => out = <<[type |-> "throw", arg |-> "Not connected to a document"]>>

\* C9: sendUpdate(u) in the Live state makes exactly one transport send, on
\* the current channel, with payload u.
C9_OneSendWhenLive ==
    (op.name = "sendUpdate" /\ connState = "Live" /\ pending = NoPending)
        => Emitted(out, "send") =
               {[ch |-> channel, event |-> "document_update", payload |-> op.arg]}

\* C10: in polling mode a tick whose read differs from the snapshot invokes
\* onUpdate once, with a replace update from 0 to the length of the snapshot
\* it replaces (0 when there is none) and the content read as text, and makes
\* that content the snapshot; a tick whose read equals the snapshot invokes
\* nothing and leaves the snapshot alone.
C10_PollTickDiff ==
    [][(op'.name = "pollRead" /\ op'.arg # Null /\ connState = "Polling")
         => IF op'.arg # lastFetchedContent
            THEN /\ out' = <<[type |-> "onUpdate",
                              arg |-> [type |-> "replace", from |-> 0,
                                       to |-> IF lastFetchedContent = Null THEN 0
                                              ELSE Len(lastFetchedContent[1]),
                                       text |-> op'.arg[1]]]>>
                 /\ lastFetchedContent' = op'.arg
            ELSE out' = <<>> /\ lastFetchedContent' = lastFetchedContent]_vars

C10_Witness ==
    /\ op.name = "pollRead" /\ op.from = "Polling" /\ lastFetchedContent = Some(<<>>)
    /\ Emitted(out, "onUpdate") = {[type |-> "replace", from |-> 0, to |-> 1, text |-> <<>>]}

\* from and to are present and in order.
WellFormed(payload) ==
    {"from", "to"} \subseteq DOMAIN payload /\ payload.from <= payload.to

\* C11: a broadcast frame hands onUpdate only payloads that have from and
\* to with from <= to; any other payload is kept from onUpdate and reported
\* through onError as MalformedUpdate.
C11_MalformedDropped ==
    op.name = "frame"
        => /\ \A update \in Emitted(out, "onUpdate") : WellFormed(update)
           /\ ~WellFormed(op.arg) => "MalformedUpdate" \in Emitted(out, "onError")

\* C12: a broadcast frame, whole or not, with onUpdate returning or
\* throwing, leaves every field of the instance, every timer, interval and
\* subscription as it was and schedules no reconnect.
C12_FrameKeepsConnection ==
    [][op'.name = "frame"
         => /\ UNCHANGED <<channel, documentId, retryCount, retryTimeout, isConnecting,
                           pollInterval, lastFetchedContent, usePolling, sinceReconnect,
                           timers, intervals, subscribed, pending, connState>>
            /\ Delays(out') = {}]_vars

C12_Witness ==
    /\ op.name = "frame" /\ ~WellFormed(op.arg) /\ connState = "Reconnecting"
    /\ "CallbackError" \in Emitted(out, "onError") /\ timers # {} /\ retryCount > 0

\* C13: leaveDocument never throws, also when unsubscribe rejects; and a
\* leaveDocument called on an instance that never joined, or right after a
\* leaveDocument has completed, changes no field, timer, interval or
\* subscription and makes no transport call.
C13_LeaveIdempotent ==
    [][op'.name = "leaveDocument"
         => /\ Emitted(out', "throw") = {}
            /\ (pending = NoPending /\ (connState = "Idle" \/ op.name = "leaveDocument"))
                 => /\ UNCHANGED <<channel, documentId, retryCount, retryTimeout,
                                   isConnecting, pollInterval, lastFetchedContent,
                                   usePolling, timers, intervals, subscribed>>
                    /\ out' = <<>>]_vars

\* C14: when a leaveDocument called in Connecting, Live, Reconnecting or
\* Polling has completed, no reconnect timer is pending, no polling interval is
\* active, channel and documentId are null, retryCount is 0, usePolling is
\* false and lastFetchedContent is cleared.
C14_TornDown ==
    (/\ op.name = "leaveDocument" /\ pending = NoPending
     /\ op.from \in {"Connecting", "Live", "Reconnecting", "Polling"})
        => /\ timers = {} /\ retryTimeout = 0
           /\ intervals = {} /\ pollInterval = 0
           /\ channel = 0 /\ documentId = NoDoc
           /\ retryCount = 0 /\ ~usePolling /\ lastFetchedContent = Null

\* C17: joinDocument and leaveDocument never throw to the caller, and
\* sendUpdate throws only when the instance is disconnected and not polling;
\* a rejected channel.send becomes one onError call, and a joinDocument whose
\* channel could not be opened or subscribed schedules a reconnect.
C17_OnlySendUpdateFails ==
    /\ op.name \in {"joinDocument", "leaveDocument"} => Emitted(out, "throw") = {}
    /\ (op.name = "sendUpdate" /\ Emitted(out, "throw") # {})
          => (channel = 0 \/ documentId = NoDoc) /\ ~usePolling
    /\ (op.name = "sendUpdate" /\ Emitted(out, "send") # {})
          => /\ Emitted(out, "throw") = {}
             /\ Len(SelectSeq(out, LAMBDA u : u.type = "onError")) <= 1
    /\ (op.name = "joinDocument" /\ pending = NoPending /\ Emitted(out, "subscribe") = {})
          => Delays(out) # {}

\* C19: a system 'disconnect' or 'error' notice whose payload has message
\* 'Subscribed to PostgreSQL' and status 'ok' changes no field, timer, interval
\* or subscription and calls nothing; any other notice on these events runs
\* handleDisconnection once: one reconnect is scheduled or polling is entered.
C19_BenignNotice ==
    [][op'.name = "system"
         => IF op'.arg = [message |-> "Subscribed to PostgreSQL", status |-> "ok"]
            THEN /\ UNCHANGED <<channel, documentId, retryCount, retryTimeout, isConnecting,
                                pollInterval, lastFetchedContent, usePolling, sinceReconnect,
                                timers, intervals, subscribed, pending, connState>>
                 /\ out' = <<>>
            ELSE /\ Len(SelectSeq(out', LAMBDA u : u.type = "setTimeout"
                                       \/ u = [type |-> "onError", arg |-> "DegradedMode"])) = 1
                 /\ \/ retryCount < 5 /\ retryCount' > retryCount /\ Cardinality(timers') = Cardinality(timers) + 1
                    \/ retryCount >= 5 /\ usePolling' /\ retryCount' = retryCount]_vars

C19_Witness ==
    /\ op.name = "system" /\ op.arg.message = "Subscribed to PostgreSQL" /\ op.arg.status = "ok"
    /\ connState = "Live" /\ out = <<>> /\ retryCount = 0 /\ timers = {}

\* A channel status or system notice that ran handleDisconnection while the
\* counter was below the maximum and the previous reconnect had been
\* scheduled less than 30 s before.
StormStep ==
    /\ op'.name \in {"status", "system"} /\ Failed(out')
    /\ retryCount < 5 /\ sinceReconnect < 30000

\* C20 as stated: within 30 s of the previous scheduling the counter n is
\* advanced by one extra step, to at most 4, and the retry is scheduled with
\* the delay of the advanced counter.
C20_SkipOne ==
    [][StormStep
         => LET k == IF retryCount + 1 < 4 THEN retryCount + 1 ELSE 4
            IN Delays(out') = {1000 * 2^k} /\ retryCount' = k + 1]_vars

\* C20: within 30 s of the previous scheduling the counter n is advanced by
\* two extra steps, to at most 4, and one retry is scheduled with the delay of
\* the advanced counter, which then counts the attempt.
C20_SkipTwo ==
    [][StormStep
         => LET k == IF retryCount + 2 < 4 THEN retryCount + 2 ELSE 4
            IN /\ Delays(out') = {1000 * 2^k} /\ retryCount' = k + 1
               /\ Cardinality(timers') = Cardinality(timers) + 1
               /\ ~Degraded(out')]_vars

\* The second failure of a session, skipped ahead from 3 and held at 4.
C20_Witness ==
    /\ op.name = "status" /\ failures = 2 /\ connState = "Reconnecting"
    /\ Delays(out) = {16000} /\ retryCount = 5

\* C15: when joinDocument(B) on an instance joined to A has completed, the
\* instance holds B with retryCount 0 and polling off, the only subscribed
\* channel is B's, and no timer or interval of A's session is left to fire.
C15_RejoinLeavesFirst ==
    (op.name = "joinDocument" /\ op.arg = DocName(2) /\ pending = NoPending)
        => /\ documentId = DocName(2) /\ channel # 0 /\ subscribed = {channel}
           /\ retryCount = 0 /\ ~usePolling
           /\ timers = {} /\ intervals = {} /\ initReads = 0

\* C16: a joinDocument called while another joinDocument of the instance is
\* suspended throws AlreadyConnecting, and no other joinDocument does.
C16_AlreadyConnecting ==
    /\ op.name = "joinOverlapping" => Emitted(out, "throw") = {"AlreadyConnecting"}
    /\ op.name = "joinDocument" => "AlreadyConnecting" \notin Emitted(out, "throw")

\* C18: the change made by the other participant leads to at most one
\* onUpdate call, counting the frames of the subscribed channels and the
\* content comparison of the poll ticks together.
C18_OncePerChange == delivered <= 1

\* C21: the first transport failure after a joinDocument, whether it happens
\* inside the join or is the first event after the join has completed,
\* schedules its retry 1000 ms ahead, also when a reconnect of the previous
\* session was scheduled less than 30 s before.
C21_JoinResetsRetryState ==
    [][/\ (op'.name = "joinDocument" /\ pending' = NoPending /\ Failed(out'))
             => Delays(out') = {1000}
       /\ (/\ op.name = "joinDocument" /\ pending = NoPending /\ ~Failed(out)
           /\ op'.name \in {"status", "system"} /\ Failed(out'))
             => Delays(out') = {1000}]_vars

\* C22: a poll tick whose getDocument or getCollaborators fails calls onError,
\* leaves lastFetchedContent as it was, and leaves the interval active and the
\* instance in polling mode.
C22_PollReadFailure ==
    [][(op'.name \in {"pollRead", "pollCollaborators"} /\ op'.arg = Null
        /\ connState = "Polling")
         => /\ Emitted(out', "onError") # {}
            /\ UNCHANGED <<lastFetchedContent, intervals, pollInterval, usePolling, connState>>]_vars

\* C23: a poll tick calls onCollaboratorUpdate only when the set it fetched
\* differs from the set last handed to the callback, and then with the whole
\* fetched set; a tick that fetched the same set calls nothing.
C23_CollaboratorDiff ==
    [][(op'.name = "pollCollaborators" /\ op'.arg # Null /\ connState = "Polling")
         => IF op'.arg = observed
            THEN Emitted(out', "onCollaboratorUpdate") = {}
            ELSE out' = <<[type |-> "onCollaboratorUpdate", arg |-> op'.arg[1]]>>]_vars

\* C24: a collaborators notice on a channel of a joined instance starts one
\* getCollaborators for the joined document; when that fetch succeeds
\* onCollaboratorUpdate is called once, with the whole fetched set, and when
\* it fails onError is called and onCollaboratorUpdate is not; neither step
\* changes the channel, the attempt counter, a timer or the polling flag.
C24_CollaboratorNotice ==
    [][/\ (op'.name = "collaboratorNotice" /\ documentId # NoDoc)
            => out' = <<[type |-> "getCollaborators", arg |-> documentId]>>
       /\ op'.name = "collaboratorFetch"
            => LET calls == SelectSeq(out', LAMBDA u : u.type = "onCollaboratorUpdate")
               IN IF op'.arg # Null
                  THEN Len(calls) = 1 /\ calls[1].arg = op'.arg[1]
                  ELSE calls = <<>> /\ Emitted(out', "onError") # {}
       /\ op'.name \in {"collaboratorNotice", "collaboratorFetch"}
            => UNCHANGED <<channel, documentId, retryCount, retryTimeout, isConnecting,
                           pollInterval, lastFetchedContent, usePolling, sinceReconnect,
                           timers, intervals, subscribed, pending, connState>>]_vars

\* A fetch that failed while a reconnect was pending.
C24_Witness ==
    /\ op.name = "collaboratorFetch" /\ op.arg = Null /\ connState = "Reconnecting"
    /\ out = <<[type |-> "onError", arg |-> "CollaboratorFetchFailed"]>>
    /\ timers # {} /\ retryCount > 0

\* C25: when every connection attempt after joinDocument fails and
\* leaveDocument is not called, the instance reaches polling mode, and until
\* then it has scheduled at most five reconnects.
C25_PollingEventually ==
    /\ [](~usePolling => failures <= 5)
    /\ (documentId # NoDoc) ~> usePolling

\* The retry timer whose failed attempt switched the instance to polling.
C25_Witness ==
    /\ op.name = "retryTimer" /\ Degraded(out) /\ usePolling /\ Delays(out) = {}
    /\ subscribed = {} /\ failures \in 2..6 /\ retryCount = 5

\* C26: the instance never has more than one subscribed channel, a subscribed
\* channel is the current one or the one a suspended leaveDocument is
\* unsubscribing, and once leaveDocument has completed none is subscribed.
C26_OneChannel ==
    /\ Cardinality(subscribed) <= 1
    /\ subscribed \subseteq {channel, pending.ch}
    /\ (op.name = "leaveDocument" /\ pending = NoPending) => subscribed = {}

\* C27: at most one reconnect timer is pending and retryTimeout is its handle.
C27_OneRetryTimer ==
    /\ Cardinality(timers) <= 1
    /\ \A t \in timers : retryTimeout = t.id

\* C28: at most one polling interval is active and pollInterval is its handle.
C28_OnePollInterval ==
    /\ Cardinality(intervals) <= 1
    /\ \A i \in intervals : pollInterval = i.id

\* C29: whenever usePolling is set no reconnect timer is pending, and no
\* step taken while usePolling is set, other than the facade calls
\* joinDocument and leaveDocument, schedules a reconnect or opens a channel.
C29_PollingExcludesReconnect ==
    [][/\ usePolling' => timers' = {}
       /\ (usePolling /\ op'.name \notin {"joinDocument", "joinOverlapping", "leaveDocument"})
            => Delays(out') = {} /\ Emitted(out', "channel") = {}]_vars

\* C30: in every reachable state retryCount is at least 0 and at most
\* maxRetries (5).
C30_RetryCountInRange == retryCount >= 0 /\ retryCount <= 5

\* The upper end, reached through the skip ahead in a second session.
C30_Witness ==
    /\ retryCount = 5 /\ op.name \in {"status", "system"} /\ Delays(out) = {16000}
    /\ failures = 2 /\ joins = 2

=============================================================================
